---------------------------- MODULE Spec2Model ----------------------------
(***************************************************************************)
(* foyer/utils/io.py: the guarded importer import_, the MESSAGES hint      *)
(* table, the DelayImportError class and the has_mbuild probe.             *)
(*                                                                         *)
(* A Python string is modelled as a Text: a sequence of tokens whose       *)
(* concatenation is the string.  A token is a TLA+ string that is either   *)
(*   - one line-break character, "\n" or "\r";                             *)
(*   - one blank character, " " or "\t", at the start of a line or on a    *)
(*     line made of blanks only;                                           *)
(*   - a format field, "{filename}" or "{line_number}";                    *)
(*   - a chunk: characters of one line, the first of them not a blank.     *)
(* Two Texts denote the same string exactly when their Flat images agree.  *)
(***************************************************************************)
EXTENDS Integers, Sequences, FiniteSets, TLC

VARIABLES
    platform,     \* the host: "posix" or "nt" (decides os.linesep, os.path)
    pc,           \* the line of io.py about to execute, or "idle"
    MESSAGES,     \* the module-level dict, key -> template Text
    globals_,     \* the other module-level names bound so far
    has_mbuild,   \* the module-level flag (meaningful once bound)
    probe,        \* what `import mbuild` did at line 110: <<>> before it ran
    module,       \* import_'s argument
    stack,        \* the callers' frames of the running call, innermost first
    message,      \* local of import_
    frameinfo,    \* local of import_: <<>> until line 91 unpacks the frame
    m,            \* local of import_
    bar,          \* local of import_
    stderr,       \* sys.stderr: the payload of every write so far, in order
    stderr0,      \* sys.stderr when the running (or last) call was entered
    outcome,      \* how the last call of import_ ended
    loaded,       \* what importlib.import_module did in the last call
    attempts,     \* host loads started by import_ so far
    calls,        \* calls of import_ so far
    failures      \* calls of import_ whose load raised, so far

vars == <<platform, pc, MESSAGES, globals_, has_mbuild, probe, module, stack,
          message, frameinfo, m, bar, stderr, stderr0, outcome, loaded,
          attempts, calls, failures>>

\* The number of import_ calls one behaviour makes.
MaxCalls == 2

-----------------------------------------------------------------------------
(* Strings *)

RECURSIVE Flat(_)
\* The Python string a Text denotes.
Flat(text) ==
    IF text = <<>> THEN "" ELSE Head(text) \o Flat(Tail(text))

RECURSIVE len(_)
\* len(s) of the string a Text denotes.
len(text) ==
    IF text = <<>> THEN 0 ELSE Len(Head(text)) + len(Tail(text))

Max(S) == CHOOSE x \in S : \A y \in S : y <= x

IsPrefix(p, s) == Len(p) <= Len(s) /\ SubSeq(s, 1, Len(p)) = p

RECURSIVE SplitFrom(_, _, _)
\* str.split(sep): the pieces between the non-overlapping occurrences of sep,
\* scanning left to right; `cur` is the piece being read.
SplitFrom(text, sep, cur) ==
    IF text = <<>> THEN <<cur>>
    ELSE IF IsPrefix(sep, text)
         THEN <<cur>> \o SplitFrom(SubSeq(text, Len(sep) + 1, Len(text)), sep, <<>>)
         ELSE SplitFrom(Tail(text), sep, Append(cur, Head(text)))

split(text, sep) == SplitFrom(text, sep, <<>>)

RECURSIVE join(_, _)
\* sep.join(pieces)
join(sep, pieces) ==
    IF pieces = <<>> THEN <<>>
    ELSE IF Len(pieces) = 1 THEN pieces[1]
    ELSE pieces[1] \o sep \o join(sep, Tail(pieces))

Digits == <<"0", "1", "2", "3", "4", "5", "6", "7", "8", "9">>

RECURSIVE str(_)
\* str(n) of a non-negative int: its decimal digits.
str(n) ==
    IF n < 10 THEN Digits[n + 1] ELSE str(n \div 10) \o Digits[(n % 10) + 1]

RECURSIVE repeat(_, _)
\* c * n
repeat(c, n) ==
    IF n <= 0 THEN ""
    ELSE LET half == repeat(c, n \div 2)
         IN  half \o half \o (IF n % 2 = 1 THEN c ELSE "")

\* message.format(filename=..., line_number=...): each field is replaced by the
\* str() of its argument; the rest of the template is copied.
format(template, filename, line_number) ==
    [i \in 1..Len(template) |->
        IF template[i] = "{filename}" THEN filename
        ELSE IF template[i] = "{line_number}" THEN str(line_number)
        ELSE template[i]]

Blanks == {" ", "\t"}

RECURSIVE Indent(_)
\* The leading blanks of a line.
Indent(line) ==
    IF line # <<>> /\ Head(line) \in Blanks
    THEN <<Head(line)>> \o Indent(Tail(line))
    ELSE <<>>

\* A line that holds a character other than a blank.
HasInk(line) == \E i \in 1..Len(line) : line[i] \notin Blanks

RECURSIVE CommonPrefix(_, _)
CommonPrefix(a, b) ==
    IF a # <<>> /\ b # <<>> /\ Head(a) = Head(b)
    THEN <<Head(a)>> \o CommonPrefix(Tail(a), Tail(b))
    ELSE <<>>

RECURSIVE Margin(_)
\* The longest run of blanks every line of `lines` starts with.
Margin(lines) ==
    IF Len(lines) = 1 THEN Indent(lines[1])
    ELSE CommonPrefix(Indent(lines[1]), Margin(Tail(lines)))

\* textwrap.dedent: lines of blanks only become empty, and the blanks common
\* to the start of every other line are removed from each.
dedent(text) ==
    LET lines  == split(text, <<"\n">>)
        inked  == SelectSeq(lines, HasInk)
        margin == IF inked = <<>> THEN <<>> ELSE Margin(inked)
        strip(line) ==
            IF ~HasInk(line) THEN <<>>
            ELSE SubSeq(line, Len(margin) + 1, Len(line))
    IN  join(<<"\n">>, [i \in 1..Len(lines) |-> strip(lines[i])])

-----------------------------------------------------------------------------
(* The host *)

Platforms == {"posix", "nt"}

\* os.linesep
linesep == IF platform = "posix" THEN <<"\n">> ELSE <<"\r", "\n">>

\* The characters os.path treats as separators.
seps == IF platform = "posix" THEN {"/"} ELSE {"/", "\\"}

\* A path is a sequence of tokens too: a separator character, a drive such as
\* "C:", or a name.
Drives == {"C:"}

\* os.path.basename: what follows the last separator (on nt, of the part
\* after the drive).
basename(path) ==
    LET p    == IF platform = "nt" /\ path # <<>> /\ Head(path) \in Drives
                THEN Tail(path) ELSE path
        cuts == {i \in 1..Len(p) : p[i] \in seps}
        i    == IF cuts = {} THEN 0 ELSE Max(cuts)
    IN  Flat(SubSeq(p, i + 1, Len(p)))


\* What importlib.import_module, or an import statement, can do with a name:
\* hand back the module object, or raise an import failure.
LoadFailures == {"ImportError", "ModuleNotFoundError"}

ModuleObject(name) == [__name__ |-> name]

LoadOutcomes(name) ==
    {[name |-> name, ok |-> TRUE, obj |-> ModuleObject(name), cls |-> "none"]}
    \cup {[name |-> name, ok |-> FALSE, obj |-> ModuleObject("none"), cls |-> c] :
            c \in LoadFailures}

-----------------------------------------------------------------------------
(* Module level of io.py *)

\* The direct bases of each exception class: the builtin ones, and
\* class DelayImportError(ImportError, SkipTest).
Bases ==
    [DelayImportError    |-> {"ImportError", "SkipTest"},
     ModuleNotFoundError |-> {"ImportError"},
     ImportError         |-> {"Exception"},
     SkipTest            |-> {"Exception"},
     KeyError            |-> {"LookupError"},
     LookupError         |-> {"Exception"},
     Exception           |-> {}]

RECURSIVE issubclass(_, _)
issubclass(c, d) ==
    c = d \/ \E b \in Bases[c] : issubclass(b, d)

\* The three templates assigned to MESSAGES.
MbuildTemplate ==
    <<"\n", "\n",
      "The code at ", "{filename}", ":", "{line_number}",
      " requires the \"mbuild\" package", "\n",
      "\n",
      "mbuild can be installed using:", "\n",
      "\n",
      "# conda install -c conda-forge mbuild", "\n",
      "\n">>

GmsoTemplate ==
    <<"\n", "\n",
      "The code at ", "{filename}", ":", "{line_number}",
      " requires the \"gmso\" package", "\n",
      "\n",
      "gmso can be installed using:", "\n",
      "\n",
      "# conda install -c conda-forge gmso", "\n">>

OpenffTemplate ==
    <<"\n", "\n",
      "The code at ", "{filename}", ":", "{line_number}",
      " requires the \"openff-toolkit\" package", "\n",
      "\n",
      "openff-toolkit can be installed using:", "\n",
      "\n",
      "# conda install -c conda-forge openff-toolkit", "\n">>

\* dict(): no key.
EmptyDict == [k \in {} |-> <<>>]

\* d[key] = value
SetItem(d, key, value) == (key :> value) @@ d

\* How a call of import_ ended.
NoOutcome == [kind |-> "none", cls |-> "none", args |-> <<>>, value |-> ModuleObject("none")]

Return(obj) == [kind |-> "return", cls |-> "none", args |-> <<>>, value |-> obj]

Raise(cls, text) == [kind |-> "raise", cls |-> cls, args |-> text, value |-> ModuleObject("none")]

\* The state once line 19, MESSAGES = dict(), has run: the class is defined
\* and nothing else of the module body has executed.
Init ==
    /\ platform \in Platforms
    /\ pc = "L20"
    /\ MESSAGES = EmptyDict
    /\ globals_ = {"DelayImportError", "MESSAGES"}
    /\ has_mbuild = FALSE
    /\ probe = <<>>
    /\ module = "none"
    /\ stack = <<>>
    /\ message = <<>>
    /\ frameinfo = <<>>
    /\ m = <<>>
    /\ bar = <<>>
    /\ stderr = <<>>
    /\ stderr0 = <<>>
    /\ outcome = NoOutcome
    /\ loaded = <<>>
    /\ attempts = 0
    /\ calls = 0
    /\ failures = 0

locals == <<module, stack, message, frameinfo, m, bar>>
history == <<stderr0, outcome, loaded, attempts, calls, failures>>

L20 ==
    /\ pc = "L20"
    /\ MESSAGES' = SetItem(MESSAGES, "mbuild", MbuildTemplate)
    /\ pc' = "L30"
    /\ UNCHANGED <<platform, globals_, has_mbuild, probe, locals, stderr, history>>

L30 ==
    /\ pc = "L30"
    /\ MESSAGES' = SetItem(MESSAGES, "gmso", GmsoTemplate)
    /\ pc' = "L39"
    /\ UNCHANGED <<platform, globals_, has_mbuild, probe, locals, stderr, history>>

L39 ==
    /\ pc = "L39"
    /\ MESSAGES' = SetItem(MESSAGES, "openff.toolkit", OpenffTemplate)
    /\ pc' = "L49"
    /\ UNCHANGED <<platform, globals_, has_mbuild, probe, locals, stderr, history>>

\* def import_(module): binds the name.
L49 ==
    /\ pc = "L49"
    /\ globals_' = globals_ \cup {"import_"}
    /\ pc' = "L110"
    /\ UNCHANGED <<platform, MESSAGES, has_mbuild, probe, locals, stderr, history>>

\* try: import mbuild
L110 ==
    /\ pc = "L110"
    /\ \E r \in LoadOutcomes("mbuild") :
        /\ probe' = <<r>>
        /\ IF r.ok
           THEN /\ globals_' = globals_ \cup {"mbuild"}
                /\ pc' = "L112"
           ELSE /\ issubclass(r.cls, "ImportError")
                /\ globals_' = globals_
                /\ pc' = "L115"
    /\ UNCHANGED <<platform, MESSAGES, has_mbuild, locals, stderr, history>>

\* has_mbuild = True
L112 ==
    /\ pc = "L112"
    /\ has_mbuild' = TRUE
    /\ globals_' = globals_ \cup {"has_mbuild"}
    /\ pc' = "L113"
    /\ UNCHANGED <<platform, MESSAGES, probe, locals, stderr, history>>

\* del mbuild
L113 ==
    /\ pc = "L113"
    /\ globals_' = globals_ \ {"mbuild"}
    /\ pc' = "idle"
    /\ UNCHANGED <<platform, MESSAGES, has_mbuild, probe, locals, stderr, history>>

\* L115 with the flag of line 112 copied into the handler.
L115_flag_true ==
    /\ pc = "L115"
    /\ has_mbuild' = TRUE
    /\ globals_' = globals_ \cup {"has_mbuild"}
    /\ pc' = "idle"
    /\ UNCHANGED <<platform, MESSAGES, probe, locals, stderr, history>>

\* except ImportError: has_mbuild = False
L115 ==
    /\ pc = "L115"
    /\ has_mbuild' = FALSE
    /\ globals_' = globals_ \cup {"has_mbuild"}
    /\ pc' = "idle"
    /\ UNCHANGED <<platform, MESSAGES, probe, locals, stderr, history>>

-----------------------------------------------------------------------------
(* import_ *)

\* The module names import_ is called with: the three keys of MESSAGES and
\* one name that is no key.
Modules == {"mbuild", "gmso", "openff.toolkit", "foobar"}

\* The call stacks import_ is called from, innermost frame first.
Stacks ==
    {<<[filename |-> <<"/", "home", "/", "u", "/", "run.py">>, line_number |-> 7],
       [filename |-> <<"/", "usr", "/", "bin", "/", "python">>, line_number |-> 1]>>,
     <<[filename |-> <<"C:", "\\", "proj", "\\", "test_forcefield.py">>, line_number |-> 120],
       [filename |-> <<"conftest.py">>, line_number |-> 33]>>}

\* The frame of import_ itself while line 91 runs.
OwnFrame ==
    [filename |-> <<"/", "site-packages", "/", "foyer", "/", "utils", "/", "io.py">>,
     line_number |-> 91]

\* inspect.getouterframes(inspect.currentframe()): the running frame, then
\* its callers.
getouterframes == <<OwnFrame>> \o stack

\* The colour codes, spelled as the source spells them.
RED == "\\033[91m"
RESET == "\\033[0m"

\* print(text, file=sys.stderr): the text, then the line end.
print_stderr(text) == Append(stderr, text \o <<"\n">>)

\* A caller calls import_(module).
Call ==
    /\ pc = "idle"
    /\ calls < MaxCalls
    /\ \E name \in Modules, s \in Stacks :
        /\ module' = name
        /\ stack' = s
    /\ message' = <<>>
    /\ frameinfo' = <<>>
    /\ m' = <<>>
    /\ bar' = <<>>
    /\ stderr0' = stderr
    /\ outcome' = NoOutcome
    /\ calls' = calls + 1
    /\ pc' = "L72"
    /\ UNCHANGED <<platform, MESSAGES, globals_, has_mbuild, probe, stderr,
                   loaded, attempts, failures>>

\* L72 with the `return` left out: the loaded module is dropped and the call
\* returns None.
L72_no_return ==
    /\ pc = "L72"
    /\ attempts' = attempts + 1
    /\ \E r \in LoadOutcomes(module) :
        /\ loaded' = <<r>>
        /\ IF r.ok
           THEN /\ outcome' = Return(ModuleObject("none"))
                /\ failures' = failures
                /\ pc' = "idle"
           ELSE /\ issubclass(r.cls, "ImportError")
                /\ outcome' = outcome
                /\ failures' = failures + 1
                /\ pc' = "L75"
    /\ UNCHANGED <<platform, MESSAGES, globals_, has_mbuild, probe, locals,
                   stderr, stderr0, calls>>

\* try: return importlib.import_module(module) / except ImportError:
L72 ==
    /\ pc = "L72"
    /\ attempts' = attempts + 1
    /\ \E r \in LoadOutcomes(module) :
        /\ loaded' = <<r>>
        /\ IF r.ok
           THEN /\ outcome' = Return(r.obj)
                /\ failures' = failures
                /\ pc' = "idle"
           ELSE /\ issubclass(r.cls, "ImportError")
                /\ outcome' = outcome
                /\ failures' = failures + 1
                /\ pc' = "L75"
    /\ UNCHANGED <<platform, MESSAGES, globals_, has_mbuild, probe, locals,
                   stderr, stderr0, calls>>

\* try: message = MESSAGES[module] / except KeyError:
L75 ==
    /\ pc = "L75"
    /\ IF module \in DOMAIN MESSAGES
       THEN /\ message' = MESSAGES[module]
            /\ pc' = "L91"
       ELSE /\ message' = message
            /\ pc' = "L77"
    /\ UNCHANGED <<platform, MESSAGES, globals_, has_mbuild, probe, module,
                   stack, frameinfo, m, bar, stderr, history>>

\* message = "The code at {filename}:{line_number} requires the " + module + " package"
L77 ==
    /\ pc = "L77"
    /\ message' = <<"The code at ", "{filename}", ":", "{line_number}",
                    " requires the ">> \o <<module>> \o <<" package">>
    /\ pc' = "L82"
    /\ UNCHANGED <<platform, MESSAGES, globals_, has_mbuild, probe, module,
                   stack, frameinfo, m, bar, stderr, history>>

\* L82 with the raise left out: the generic message goes on to be printed.
L82_fall_through ==
    /\ pc = "L82"
    /\ pc' = "L91"
    /\ UNCHANGED <<platform, MESSAGES, globals_, has_mbuild, probe, locals,
                   stderr, history>>

\* raise ImportError("No module named %s" % module)
L82 ==
    /\ pc = "L82"
    /\ outcome' = Raise("ImportError", <<"No module named ", module>>)
    /\ pc' = "idle"
    /\ UNCHANGED <<platform, MESSAGES, globals_, has_mbuild, probe, locals,
                   stderr, stderr0, loaded, attempts, calls, failures>>

\* L91 taking entry [0], the frame of import_ itself.
L91_own_frame ==
    /\ pc = "L91"
    /\ frameinfo' = <<getouterframes[1]>>
    /\ pc' = "L93"
    /\ UNCHANGED <<platform, MESSAGES, globals_, has_mbuild, probe, module,
                   stack, message, m, bar, stderr, history>>

\* (frame, filename, line_number, ...) = inspect.getouterframes(...)[1]
L91 ==
    /\ pc = "L91"
    /\ frameinfo' = <<getouterframes[2]>>
    /\ pc' = "L93"
    /\ UNCHANGED <<platform, MESSAGES, globals_, has_mbuild, probe, module,
                   stack, message, m, bar, stderr, history>>

\* m = message.format(filename=os.path.basename(filename), line_number=line_number)
L93 ==
    /\ pc = "L93"
    /\ m' = format(message, basename(frameinfo[1].filename), frameinfo[1].line_number)
    /\ pc' = "L94"
    /\ UNCHANGED <<platform, MESSAGES, globals_, has_mbuild, probe, module,
                   stack, message, frameinfo, bar, stderr, history>>

\* m = textwrap.dedent(m)
L94 ==
    /\ pc = "L94"
    /\ m' = dedent(m)
    /\ pc' = "L96"
    /\ UNCHANGED <<platform, MESSAGES, globals_, has_mbuild, probe, module,
                   stack, message, frameinfo, bar, stderr, history>>

\* bar = "\033[91m" + "#" * max(len(line) for line in m.split(os.linesep)) + "\033[0m"
L96 ==
    /\ pc = "L96"
    /\ LET lines == split(m, linesep)
       IN  bar' = <<RED, repeat("#", Max({len(lines[i]) : i \in 1..Len(lines)})), RESET>>
    /\ pc' = "L102"
    /\ UNCHANGED <<platform, MESSAGES, globals_, has_mbuild, probe, module,
                   stack, message, frameinfo, m, stderr, history>>

\* print("", file=sys.stderr)
L102 ==
    /\ pc = "L102"
    /\ stderr' = print_stderr(<<>>)
    /\ pc' = "L103"
    /\ UNCHANGED <<platform, MESSAGES, globals_, has_mbuild, probe, locals, history>>

\* print(bar, file=sys.stderr)
L103 ==
    /\ pc = "L103"
    /\ stderr' = print_stderr(bar)
    /\ pc' = "L104"
    /\ UNCHANGED <<platform, MESSAGES, globals_, has_mbuild, probe, locals, history>>

\* print(m, file=sys.stderr)
L104 ==
    /\ pc = "L104"
    /\ stderr' = print_stderr(m)
    /\ pc' = "L105"
    /\ UNCHANGED <<platform, MESSAGES, globals_, has_mbuild, probe, locals, history>>

\* print(bar, file=sys.stderr)
L105 ==
    /\ pc = "L105"
    /\ stderr' = print_stderr(bar)
    /\ pc' = "L106"
    /\ UNCHANGED <<platform, MESSAGES, globals_, has_mbuild, probe, locals, history>>

\* raise DelayImportError(m)
L106 ==
    /\ pc = "L106"
    /\ outcome' = Raise("DelayImportError", m)
    /\ pc' = "idle"
    /\ UNCHANGED <<platform, MESSAGES, globals_, has_mbuild, probe, locals,
                   stderr, stderr0, loaded, attempts, calls, failures>>

Next ==
    \/ L20 \/ L30 \/ L39 \/ L49 \/ L110 \/ L112 \/ L113 \/ L115
    \/ Call \/ L72 \/ L75 \/ L77 \/ L82
    \/ L91 \/ L93 \/ L94 \/ L96 \/ L102 \/ L103 \/ L104 \/ L105 \/ L106

Spec == Init /\ [][Next]_vars

-----------------------------------------------------------------------------
(* Properties *)

\* A call of import_ has ended and no other has begun: outcome, loaded and
\* the locals are those of that call.
Done == pc = "idle" /\ calls > 0

\* The call that ended is one whose load raised.
LoadFailed == Done /\ ~loaded[1].ok

\* What the call wrote to sys.stderr, one entry per print.
Written == SubSeq(stderr, Len(stderr0) + 1, Len(stderr))

\* The keys of MESSAGES once the module body has run.
Keys == {"mbuild", "gmso", "openff.toolkit"}

\* The table lines 19-46 build.
Table ==
    [k \in Keys |->
        IF k = "mbuild" THEN MbuildTemplate
        ELSE IF k = "gmso" THEN GmsoTemplate
        ELSE OpenffTemplate]

\* The base name and the line of the immediate caller, as io.py's host
\* reports them, for the two call stacks of the model.
CallerBase ==
    IF stack[1].line_number = 7 THEN "run.py"
    ELSE IF platform = "nt" THEN "test_forcefield.py"
    ELSE "C:\\proj\\test_forcefield.py"

CallerLine == IF stack[1].line_number = 7 THEN "7" ELSE "120"

\* The text of each template of lines 20-46 with its two fields filled in.
Filled(key, base, line) ==
    IF key = "mbuild" THEN
        "\n\nThe code at " \o base \o ":" \o line
        \o " requires the \"mbuild\" package\n\nmbuild can be installed using:\n\n"
        \o "# conda install -c conda-forge mbuild\n\n"
    ELSE IF key = "gmso" THEN
        "\n\nThe code at " \o base \o ":" \o line
        \o " requires the \"gmso\" package\n\ngmso can be installed using:\n\n"
        \o "# conda install -c conda-forge gmso\n"
    ELSE
        "\n\nThe code at " \o base \o ":" \o line
        \o " requires the \"openff-toolkit\" package\n\n"
        \o "openff-toolkit can be installed using:\n\n"
        \o "# conda install -c conda-forge openff-toolkit\n"

\* The generic message of lines 77-81 with its two fields filled in.
Fallback(name, base, line) ==
    "The code at " \o base \o ":" \o line \o " requires the " \o name \o " package"

\* The '#' characters of a printed bar, and the lines of a printed message.
Hashes(entry) == entry[2]
BodyLines(entry) == split(SubSeq(entry, 1, Len(entry) - 1), <<"\n">>)
LongestLine(entry) == Max({len(BodyLines(entry)[i]) : i \in 1..Len(BodyLines(entry))})

\* C1: every call of import_ whose load raises an import failure ends by
\* raising a DelayImportError, an error that is both an ImportError and a
\* SkipTest, whether or not the name is a key of MESSAGES.
C1_FailureRaisesDelayImportError ==
    LoadFailed =>
        /\ outcome.kind = "raise"
        /\ outcome.cls = "DelayImportError"
        /\ issubclass(outcome.cls, "ImportError")
        /\ issubclass(outcome.cls, "SkipTest")

\* C2: for a name that is no key of MESSAGES and whose load fails, import_
\* prints, between the two bars, the fallback message "The code at
\* <basename>:<line> requires the <module_name> package".
C2_FallbackMessagePrinted ==
    (LoadFailed /\ module \notin DOMAIN MESSAGES) =>
        /\ Len(Written) = 4
        /\ Written[2] = Written[4]
        /\ Flat(Written[3]) = Fallback(module, CallerBase, CallerLine) \o "\n"

\* C3: for a key of MESSAGES whose load fails, the message printed is that
\* key's own template with {filename} and {line_number} replaced by the
\* immediate caller's file base name and line number, never the fallback
\* text nor another key's template.
C3_RegisteredTemplatePrinted ==
    (LoadFailed /\ module \in Keys) =>
        /\ Len(Written) = 4
        /\ Flat(Written[3]) = Filled(module, CallerBase, CallerLine) \o "\n"
        /\ Flat(Written[3]) # Fallback(module, CallerBase, CallerLine) \o "\n"
        /\ \A k \in Keys \ {module} :
            Flat(Written[3]) # Filled(k, CallerBase, CallerLine) \o "\n"

\* A failing import_("gmso") called from run.py line 7 on a posix host has
\* printed the gmso hint.
C3_Witness ==
    /\ LoadFailed
    /\ module = "gmso"
    /\ platform = "posix"
    /\ stack[1].line_number = 7
    /\ Len(Written) = 4
    /\ Flat(Written[3]) =
        "\n\nThe code at run.py:7 requires the \"gmso\" package\n\n"
        \o "gmso can be installed using:\n\n# conda install -c conda-forge gmso\n\n"

\* C4: when the load succeeds, import_ returns the module object the loader
\* produced, raises nothing, and leaves sys.stderr and MESSAGES as they were.
C4_SuccessReturnsModuleSilently ==
    (Done /\ loaded[1].ok) =>
        /\ outcome.kind = "return"
        /\ outcome.value = loaded[1].obj
        /\ outcome.value = ModuleObject(module)
        /\ stderr = stderr0
        /\ MESSAGES = Table

\* A successful import_("openff.toolkit") made after an earlier call had
\* printed a block.
C4_Witness ==
    /\ Done
    /\ loaded[1].ok
    /\ module = "openff.toolkit"
    /\ outcome.kind = "return"
    /\ stderr # <<>>

\* C5: on every failing call, the description the raised error carries is the
\* formatted message that was printed between the bars.
C5_ErrorCarriesPrintedMessage ==
    LoadFailed =>
        /\ outcome.kind = "raise"
        /\ Len(Written) = 4
        /\ Flat(Written[3]) = Flat(outcome.args) \o "\n"

\* C6: on every failing call, in the table branch and in the fallback
\* branch, a bar is printed whose number of '#' equals the length of the
\* longest line of the printed message body.
C6_BarAsLongAsLongestLine ==
    LoadFailed =>
        /\ Len(Written) = 4
        /\ Written[2] = <<RED, Hashes(Written[2]), RESET, "\n">>
        /\ Hashes(Written[2]) = repeat("#", LongestLine(Written[3]))

\* C7: on a failing call the writes to sys.stderr are, in this order and no
\* other, an empty line, the bar, the formatted message and the same bar; the
\* error is raised after the four writes and nothing is written afterwards.
C7_WritesInOrderBeforeRaise ==
    /\ LoadFailed =>
        /\ outcome.kind = "raise"
        /\ Written = << <<"\n">>, bar \o <<"\n">>, m \o <<"\n">>, bar \o <<"\n">> >>
        /\ bar # <<>>
    /\ pc # "idle" => outcome.kind # "raise"

\* C8: has_mbuild is computed once, while the module loads, and is True
\* exactly when `import mbuild` succeeded then and False exactly when it
\* raised an import error; no later call of import_ changes it.
C8_HasMbuildFixedAtLoad ==
    /\ "has_mbuild" \in globals_ =>
        /\ probe # <<>>
        /\ has_mbuild = probe[1].ok
    /\ (pc \in {"idle", "L72"} \/ calls > 0) => "has_mbuild" \in globals_
    /\ "mbuild" \in globals_ => pc \in {"L112", "L113"}

\* import_("mbuild") has succeeded although the probe at load time failed,
\* and the flag still says False.
C8_Witness ==
    /\ Done
    /\ module = "mbuild"
    /\ loaded[1].ok
    /\ ~probe[1].ok
    /\ has_mbuild = FALSE

\* C9: import_ keeps no state between calls: each call attempts the load
\* exactly once, MESSAGES is never modified, and each call whose load fails
\* prints its own block and raises, so that the blocks on sys.stderr are as
\* many as the failing calls.
C9_EachFailingCallPrintsItsBlock ==
    pc = "idle" =>
        /\ attempts = calls
        /\ MESSAGES = Table
        /\ Len(stderr) = 4 * failures
        /\ (calls > 0 /\ ~loaded[1].ok) => outcome.kind = "raise"

=============================================================================
